---- MODULE Spec2Model ----
(***************************************************************************)
(* URL threat scoring engine of analysis-api/main.py: feature extraction,  *)
(* the dual-mode scorer, fusion of the two reputation providers, the       *)
(* verdict classifier and the HTTP endpoints that persist and read scans.  *)
(*                                                                         *)
(* Scores are Python floats (IEEE-754 binary64).  A float x with           *)
(* x = 0 or 2^-4 <= x < 4 is held exactly as the integer x * 2^56, written *)
(* as four base-2^16 limbs <<l3, l2, l1, l0>> (most significant first), so *)
(* that every sum below is rounded exactly as the hardware rounds it.      *)
(***************************************************************************)
EXTENDS Integers, Sequences, FiniteSets, TLC

\* ---------------------------------------------------------------- bounds
MaxKeywords == 3
MaxChunks == 4
MaxScans == 2

\* ------------------------------------------------------ call by value
\* Python evaluates an argument once, before the call.  F(x) and G(x, y)
\* with the arguments evaluated first:
ByValue1(F(_), x) == CHOOSE r \in { F(v) : v \in {x} } : TRUE
ByValue2(G(_, _), x, y) == CHOOSE r \in { G(v, w) : v \in {x}, w \in {y} } : TRUE

\* ------------------------------------------------- binary64 arithmetic
LimbBase == 65536

\* carry propagation: limbs back into 0..LimbBase-1 (top limb unbounded)
Normalize(n) ==
  LET c0 == n[4] \div LimbBase
      s1 == n[3] + c0
      c1 == s1 \div LimbBase
      s2 == n[2] + c1
      c2 == s2 \div LimbBase
  IN  << n[1] + c2, s2 % LimbBase, s1 % LimbBase, n[4] % LimbBase >>

Zero == << 0, 0, 0, 0 >>

ExactAdd(a, b) ==
  LET Sum(x, y) == Normalize(<< x[1] + y[1], x[2] + y[2], x[3] + y[3], x[4] + y[4] >>)
  IN  ByValue2(Sum, a, b)

ExactScale(k, a) ==
  LET Times(j, x) == Normalize(<< j * x[1], j * x[2], j * x[3], j * x[4] >>)
  IN  ByValue2(Times, k, a)

\* a < b and a <= b on exact values
Less(a, b) ==
  \E x \in {a}, y \in {b} :
    \/ x[1] < y[1]
    \/ x[1] = y[1] /\ x[2] < y[2]
    \/ x[1] = y[1] /\ x[2] = y[2] /\ x[3] < y[3]
    \/ x[1] = y[1] /\ x[2] = y[2] /\ x[3] = y[3] /\ x[4] < y[4]

LessEq(a, b) == \E x \in {a}, y \in {b} : x = y \/ Less(x, y)

\* a - b for b <= a, exact
ExactSub(a, b) ==
  LET Diff(x, y) ==
        LET d0 == x[4] - y[4]
            w0 == IF d0 < 0 THEN 1 ELSE 0
            d1 == x[3] - y[3] - w0
            w1 == IF d1 < 0 THEN 1 ELSE 0
            d2 == x[2] - y[2] - w1
            w2 == IF d2 < 0 THEN 1 ELSE 0
        IN  << x[1] - y[1] - w2, d2 + w2 * LimbBase, d1 + w1 * LimbBase, d0 + w0 * LimbBase >>
  IN  ByValue2(Diff, a, b)

\* spacing of binary64 values around n, in units of 2^-56
Ulp(n) ==
  IF n[1] < 32 THEN 1
  ELSE IF n[1] < 64 THEN 2
  ELSE IF n[1] < 128 THEN 4
  ELSE IF n[1] < 256 THEN 8
  ELSE IF n[1] < 512 THEN 16
  ELSE 32

\* round-to-nearest, ties-to-even, to the 53-bit significand
RoundToDouble(n) ==
  LET Nearest(x) ==
        LET u == Ulp(x)
            low == x[4] % u
            odd == ((x[4] \div u) % 2) = 1
            up == (2 * low > u) \/ (2 * low = u /\ odd)
        IN  Normalize(<< x[1], x[2], x[3], x[4] - low + (IF up THEN u ELSE 0) >>)
  IN  ByValue1(Nearest, n)

FloatAdd(a, b) == RoundToDouble(ExactAdd(a, b))

FloatMulInt(k, a) == RoundToDouble(ExactScale(k, a))

FloatAbsDiff(a, b) ==
  LET AbsDiff(x, y) ==
        IF Less(x, y) THEN RoundToDouble(ExactSub(y, x)) ELSE RoundToDouble(ExactSub(x, y))
  IN  ByValue2(AbsDiff, a, b)

FloatMin(a, b) ==
  LET Smaller(x, y) == IF Less(x, y) THEN x ELSE y
  IN  ByValue2(Smaller, a, b)

\* the binary64 value of the decimal literal num/den (den 100 or 1000),
\* for num = 0 or 1/16 <= num/den < 2
FromDecimal(num, den) ==
  IF num = 0 THEN Zero
  ELSE
    LET u == IF 8 * num < den THEN 1
             ELSE IF 4 * num < den THEN 2
             ELSE IF 2 * num < den THEN 4
             ELSE IF num < den THEN 8
             ELSE 16
        d == den * u
        \* long division of num * 2^56 = <<num * 256, 0, 0, 0>> by d
        q3 == (num * 256) \div d
        r3 == (num * 256) % d
        q2 == (r3 * LimbBase) \div d
        r2 == (r3 * LimbBase) % d
        q1 == (r2 * LimbBase) \div d
        r1 == (r2 * LimbBase) % d
        q0 == (r1 * LimbBase) \div d
        r0 == (r1 * LimbBase) % d
        up == (2 * r0 > d) \/ (2 * r0 = d /\ q0 % 2 = 1)
    IN  ExactScale(u, Normalize(<< q3, q2, q1, q0 + (IF up THEN 1 ELSE 0) >>))

Dec(hundredths) == FromDecimal(hundredths, 100)

\* Python round(x, 2): the exact value of x rounded half-even to two
\* decimals; the result is returned as its number of hundredths
Round2(n) ==
  LET Hundredths(m) ==
        LET q == m[1] \div 256
            rem == << m[1] % 256, m[2], m[3], m[4] >>
            half == << 128, 0, 0, 0 >>
            up == Less(half, rem) \/ (rem = half /\ q % 2 = 1)
        IN  q + (IF up THEN 1 ELSE 0)
  IN  ByValue1(Hundredths, ExactScale(100, n))

\* ------------------------------------------------------------ the state
VARIABLES
  model,              \* "None" or "loaded": the classifier artifact
  GOOGLE_SAFE_BROWSING_API_KEY,
  VIRUSTOTAL_API_KEY,
  firestore_client,   \* "None" or "client"
  pc,                 \* position of the request being handled
  url,                \* the request's URL, a sequence of characters
  features,
  prob,               \* <<p0, p1>> returned by model.predict_proba
  threat_score,
  confidence,
  indicators,
  gsb_result,
  vt_result,
  net_log,            \* the network calls the request made, with their answers
  verdict,            \* what analyze_url returned
  response,           \* what the endpoint returned
  store,              \* the url_scans collection, oldest document first
  next_id,            \* source of fresh scan ids and timestamps
  firestore_log       \* how the last Firestore operation ended

config == << model, GOOGLE_SAFE_BROWSING_API_KEY, VIRUSTOTAL_API_KEY, firestore_client >>
request == << url, features, prob, threat_score, confidence, indicators,
              gsb_result, vt_result, net_log, verdict >>
persistence == << response, store, next_id, firestore_log >>
vars == << config, pc, request, persistence >>

\* ------------------------------------------------------- predict_threat
\* the probability pairs the artifact may return, p0 + p1 = 1, in thousandths
ProbMilli == {0, 125, 300, 304, 500, 604, 700, 1000}
ProbPairs == { << FromDecimal(1000 - m, 1000), FromDecimal(m, 1000) >> : m \in ProbMilli }
NoProb == << Zero, Zero >>

ModelConfidence(p) ==
  LET sep == FloatAbsDiff(p[1], p[2])
  IN  IF Less(Dec(40), sep) THEN "High"
      ELSE IF Less(Dec(20), sep) THEN "Medium"
      ELSE "Low"

\* the amounts the else branch adds, in source order (lines 126-156)
TriggeredDeltas(f) ==
  (IF f.url_length > 80 THEN << Dec(15) >> ELSE << >>)
  \o (IF f.dot_count > 4 THEN << Dec(10) >> ELSE << >>)
  \o (IF f.has_ip # 0 THEN << Dec(25) >> ELSE << >>)
  \o (IF f.has_https = 0 THEN << Dec(10) >> ELSE << >>)
  \o (IF f.suspicious_keywords > 0
      THEN << FloatMulInt(f.suspicious_keywords, Dec(10)) >> ELSE << >>)
  \o (IF f.tld_risk_score > 0 THEN << Dec(20) >> ELSE << >>)
  \o (IF f.subdomain_count > 3 THEN << Dec(10) >> ELSE << >>)
  \o (IF f.entropy > 5000 THEN << Dec(15) >> ELSE << >>)

\* threat_score += delta, one after the other
RECURSIVE AddInOrder(_, _)
AddInOrder(score, deltas) ==
  LET Step(acc, ds) ==
        IF ds = << >> THEN acc ELSE AddInOrder(FloatAdd(acc, Head(ds)), Tail(ds))
  IN  ByValue2(Step, score, deltas)

\* variant: the final min(threat_score, 1.0) left out
HeuristicScoreUnclamped(f) == AddInOrder(Zero, TriggeredDeltas(f))

\* lines 123-158
HeuristicScore(f) == FloatMin(AddInOrder(Zero, TriggeredDeltas(f)), Dec(100))

\* the list `indicators` local to predict_threat (built, then dropped)
HeuristicIndicators(f) ==
  (IF f.url_length > 80 THEN << <<"Unusually long URL">> >> ELSE << >>)
  \o (IF f.dot_count > 4 THEN << <<"Excessive subdomains">> >> ELSE << >>)
  \o (IF f.has_ip # 0 THEN << <<"IP address in URL">> >> ELSE << >>)
  \o (IF f.has_https = 0 THEN << <<"No HTTPS encryption">> >> ELSE << >>)
  \o (IF f.suspicious_keywords > 0
      THEN << <<"Suspicious keywords detected (", ToString(f.suspicious_keywords), " found)">> >>
      ELSE << >>)
  \o (IF f.tld_risk_score > 0 THEN << <<"High-risk TLD detected">> >> ELSE << >>)
  \o (IF f.subdomain_count > 3 THEN << <<"Excessive subdomain depth">> >> ELSE << >>)
  \o (IF f.entropy > 5000 THEN << <<"High URL entropy (obfuscation indicator)">> >> ELSE << >>)

\* returns <<threat_score, confidence>>
predict_threat(m, f, p) ==
  IF m # "None"
  THEN << p[2], ModelConfidence(p) >>
  ELSE << HeuristicScore(f), "Medium" >>

\* ---------------------------------------------------------- analyze_url
\* lines 210-227: the indicator list of the verdict
BaseIndicators(f) ==
  (IF f.url_length > 80 THEN << <<"Unusually long URL">> >> ELSE << >>)
  \o (IF f.dot_count > 4 THEN << <<"Excessive subdomains/dots">> >> ELSE << >>)
  \o (IF f.has_ip # 0 THEN << <<"IP address detected instead of domain">> >> ELSE << >>)
  \o (IF f.has_https = 0 THEN << <<"No HTTPS encryption">> >> ELSE << >>)
  \o (IF f.suspicious_keywords > 0
      THEN << <<"Suspicious keywords detected (", ToString(f.suspicious_keywords), " found)">> >>
      ELSE << >>)
  \o (IF f.tld_risk_score > 0 THEN << <<"High-risk TLD detected">> >> ELSE << >>)
  \o (IF f.subdomain_count > 3 THEN << <<"Excessive subdomain depth">> >> ELSE << >>)
  \o (IF f.entropy > 5000 THEN << <<"High URL entropy (obfuscation indicator)">> >> ELSE << >>)

\* what requests.post / requests.get can do: raise (timeout, transport
\* error), or answer with a status and a body
NoCall == [raises |-> FALSE, status |-> 0, body |-> "no_call"]
GsbResponses ==
  { [raises |-> TRUE, status |-> 0, body |-> "none"],
    [raises |-> FALSE, status |-> 500, body |-> "error_page"],
    [raises |-> FALSE, status |-> 200, body |-> "not_json"],
    [raises |-> FALSE, status |-> 200, body |-> "no_matches_key"],
    [raises |-> FALSE, status |-> 200, body |-> "empty_matches"],
    [raises |-> FALSE, status |-> 200, body |-> "one_match"] }
VtResponses ==
  { [raises |-> TRUE, status |-> 0, body |-> "none"],
    [raises |-> FALSE, status |-> 404, body |-> "error_page"],
    [raises |-> FALSE, status |-> 200, body |-> "not_json"],
    [raises |-> FALSE, status |-> 200, body |-> "vt_data"] }

get_google_safe_browsing(key, r) ==
  IF key = ""
  THEN [enabled |-> FALSE, result |-> "API key not configured"]
  ELSE IF r.raises
  THEN [enabled |-> FALSE, error |-> "request failed"]
  ELSE IF r.status = 200
  THEN IF r.body = "not_json"
       THEN [enabled |-> FALSE, error |-> "invalid json"]
       ELSE [enabled |-> TRUE,
             matches |-> IF r.body = "one_match" THEN << "match" >> ELSE << >>]
  ELSE [enabled |-> FALSE, result |-> "clean"]

\* variant: the status_code == 200 test left out
get_virustotal_analysis_any_status(key, r) ==
  IF key = ""
  THEN [enabled |-> FALSE, result |-> "API key not configured"]
  ELSE IF r.raises
  THEN [enabled |-> FALSE, error |-> "request failed"]
  ELSE IF r.body = "not_json"
  THEN [enabled |-> FALSE, error |-> "invalid json"]
  ELSE [enabled |-> TRUE, data |-> r.body]

get_virustotal_analysis(key, r) ==
  IF key = ""
  THEN [enabled |-> FALSE, result |-> "API key not configured"]
  ELSE IF r.raises
  THEN [enabled |-> FALSE, error |-> "request failed"]
  ELSE IF r.status = 200
  THEN IF r.body = "not_json"
       THEN [enabled |-> FALSE, error |-> "invalid json"]
       ELSE [enabled |-> TRUE, data |-> r.body]
  ELSE [enabled |-> FALSE, result |-> "clean"]

\* variant: gsb_result.get("enabled") alone
GsbEnabled(r) == r.enabled

\* gsb_result.get("enabled") and gsb_result.get("matches")
GsbFlagged(r) == r.enabled /\ "matches" \in DOMAIN r /\ r.matches # << >>

\* variant: threat_score + 0.3 without the min
RaiseScoreUnclamped(s) == FloatAdd(s, Dec(30))

\* line 231
RaiseScore(s) == FloatMin(FloatAdd(s, Dec(30)), Dec(100))

\* variant: < in place of <=
ThreatLevelStrict(s) ==
  IF Less(s, Dec(30)) THEN "Safe"
  ELSE IF Less(s, Dec(60)) THEN "Suspicious"
  ELSE "High Risk"

ThreatLevel(s) ==
  IF LessEq(s, Dec(30)) THEN "Safe"
  ELSE IF LessEq(s, Dec(60)) THEN "Suspicious"
  ELSE "High Risk"

Recommendation(s) ==
  IF LessEq(s, Dec(30)) THEN "This URL appears to be safe. Exercise normal caution."
  ELSE IF LessEq(s, Dec(60))
  THEN "This URL shows some suspicious characteristics. Proceed with caution."
  ELSE "This URL shows multiple high-risk indicators. Do not visit this URL."

SafeToVisit(s) == LessEq(s, Dec(30))

MakeVerdict(u, f, s, c, ind, gsb, vt) ==
  [ url |-> u,
    threatScore |-> Round2(s),
    threatLevel |-> ThreatLevel(s),
    confidence |-> c,
    isMalicious |-> Less(Dec(50), s),
    indicators |-> IF ind = << >> THEN << <<"No specific threat indicators detected">> >> ELSE ind,
    recommendation |-> Recommendation(s),
    actionRequired |-> Less(Dec(30), s),
    safeToVisit |-> SafeToVisit(s),
    features |-> f,
    googleSafeBrowsing |-> gsb,
    virusTotal |-> vt ]

\* ----------------------------------------------------- extract_features
\* A str is a sequence of one-character strings.
Digits == {"0", "1", "2", "3", "4", "5", "6", "7", "8", "9"}

\* str.count(c)
CountChar(s, c) ==
  LET Occurrences(t) == Cardinality({ i \in 1..Len(t) : t[i] = c })
  IN  ByValue1(Occurrences, s)

\* str.replace(c, '')
RemoveChar(s, c) == SelectSeq(s, LAMBDA x : x # c)

\* str.isdigit(): non-empty and every character a digit
IsDigit(s) == \E t \in {s} : t # << >> /\ \A i \in 1..Len(t) : t[i] \in Digits

\* str.startswith(prefix)
StartsWith(s, prefix) ==
  \E t \in {s} : Len(prefix) <= Len(t) /\ SubSeq(t, 1, Len(prefix)) = prefix

\* sub in s
Contains(s, sub) ==
  \E t \in {s}, u \in {sub} :
    \E i \in 0..(Len(t) - Len(u)) : SubSeq(t, i + 1, i + Len(u)) = u

\* index of the first c in s, 0 when there is none
FindChar(s, c) ==
  LET First(t) ==
        IF \E i \in 1..Len(t) : t[i] = c
        THEN CHOOSE i \in 1..Len(t) : t[i] = c /\ \A j \in 1..(i - 1) : t[j] # c
        ELSE 0
  IN  ByValue1(First, s)

\* str.split(c): the segments between the occurrences of c
RECURSIVE SplitOn(_, _)
SplitOn(s, c) ==
  LET Segments(t, i) ==
        IF i = 0 THEN << t >>
        ELSE << SubSeq(t, 1, i - 1) >> \o SplitOn(SubSeq(t, i + 1, Len(t)), c)
  IN  ByValue2(Segments, s, FindChar(s, c))

\* c.join(parts)
RECURSIVE JoinWith(_, _)
JoinWith(parts, c) ==
  LET Joined(ps) ==
        IF ps = << >> THEN << >>
        ELSE IF Len(ps) = 1 THEN ps[1]
        ELSE ps[1] \o << c >> \o JoinWith(Tail(ps), c)
  IN  ByValue1(Joined, parts)

LowerOf ==
    ("A" :> "a") @@ ("B" :> "b") @@ ("C" :> "c") @@ ("D" :> "d") @@ ("E" :>
    "e") @@ ("F" :> "f") @@ ("G" :> "g") @@ ("H" :> "h") @@ ("I" :> "i") @@
    ("J" :> "j") @@ ("K" :> "k") @@ ("L" :> "l") @@ ("M" :> "m") @@ ("N" :>
    "n") @@ ("O" :> "o") @@ ("P" :> "p") @@ ("Q" :> "q") @@ ("R" :> "r") @@
    ("S" :> "s") @@ ("T" :> "t") @@ ("U" :> "u") @@ ("V" :> "v") @@ ("W" :>
    "w") @@ ("X" :> "x") @@ ("Y" :> "y") @@ ("Z" :> "z")

\* str.lower()
Lower(s) ==
  LET Lowered(t) == [ i \in 1..Len(t) |-> IF t[i] \in DOMAIN LowerOf THEN LowerOf[t[i]] ELSE t[i] ]
  IN  ByValue1(Lowered, s)

suspicious_keywords_list ==
  <<
    << "e", "n", "c", "r", "y", "p", "t" >>,
    << "d", "e", "c", "r", "y", "p", "t" >>,
    << "s", "e", "c", "u", "r", "e" >>,
    << "u", "p", "d", "a", "t", "e" >>,
    << "v", "e", "r", "i", "f", "y" >>,
    << "a", "c", "c", "o", "u", "n", "t" >>,
    << "l", "o", "g", "i", "n" >>,
    << "f", "r", "e", "e" >>,
    << "d", "o", "w", "n", "l", "o", "a", "d" >>,
    << "w", "a", "l", "l", "e", "t" >>,
    << "c", "r", "y", "p", "t", "o" >>,
    << "b", "i", "t", "c", "o", "i", "n" >>,
    << "p", "a", "s", "s", "w", "o", "r", "d" >>,
    << "b", "a", "n", "k", "i", "n", "g" >>,
    << "i", "n", "v", "o", "i", "c", "e" >>,
    << "p", "a", "y", "m", "e", "n", "t" >>,
    << "s", "u", "p", "p", "o", "r", "t" >>,
    << "c", "o", "n", "f", "i", "r", "m" >>,
    << "u", "n", "l", "o", "c", "k" >> >>

suspicious_tlds ==
  {
    << "r", "u" >>,
    << "c", "n" >>,
    << "t", "k" >>,
    << "x", "y", "z" >>,
    << "t", "o", "p" >>,
    << "p", "w" >>,
    << "c", "c" >>,
    << "w", "s" >>,
    << "i", "n", "f", "o" >>,
    << "w", "o", "r", "k" >>,
    << "c", "l", "i", "c", "k" >>,
    << "l", "i", "n", "k" >>,
    << "l", "o", "a", "n" >>,
    << "d", "a", "t", "e" >>,
    << "r", "a", "c", "i", "n", "g" >>,
    << "g", "q" >>,
    << "m", "l" >>,
    << "g", "a" >>,
    << "c", "f" >> }

\* round(1000 * log2(k)) for k = 1..64: math.log2 in thousandths of a bit
Log2Milli ==
    << 0, 1000, 1585, 2000, 2322, 2585, 2807, 3000, 3170, 3322, 3459, 3585,
    3700, 3807, 3907, 4000, 4087, 4170, 4248, 4322, 4392, 4459, 4524, 4585,
    4644, 4700, 4755, 4807, 4858, 4907, 4954, 5000, 5044, 5087, 5129, 5170,
    5209, 5248, 5285, 5322, 5358, 5392, 5426, 5459, 5492, 5524, 5555, 5585,
    5615, 5644, 5672, 5700, 5728, 5755, 5781, 5807, 5833, 5858, 5883, 5907,
    5931, 5954, 5977, 6000 >>

RECURSIVE SumCountLog(_, _)
SumCountLog(s, chars) ==
  LET Total(cs) ==
        IF cs = {} THEN 0
        ELSE LET c == CHOOSE x \in cs : TRUE
                 n == CountChar(s, c)
             IN  n * Log2Milli[n] + SumCountLog(s, cs \ {c})
  IN  ByValue1(Total, chars)

\* Shannon entropy of the characters of s in thousandths of a bit:
\* -sum (n_c / n) log2 (n_c / n) = log2 n - (sum n_c log2 n_c) / n
calculate_entropy(s) ==
  LET Entropy(t) ==
        IF t = << >> THEN 0
        ELSE Log2Milli[Len(t)] - (SumCountLog(t, { t[i] : i \in 1..Len(t) }) \div Len(t))
  IN  ByValue1(Entropy, s)

\* tldextract.extract, for URLs without '?', '#', '@' and '[': the public
\* suffixes the library knows are cut down to those the URLs here can end in
PublicSuffixes == suspicious_tlds \cup { << "c", "o", "m" >> }

SchemeChars ==
  Digits \cup { "+", "-", "." } \cup DOMAIN LowerOf \cup { LowerOf[c] : c \in DOMAIN LowerOf }

\* index of the first "//" in s, 0 when there is none
FindDoubleSlash(s) ==
  LET First(t) ==
        IF \E i \in 1..(Len(t) - 1) : t[i] = "/" /\ t[i + 1] = "/"
        THEN CHOOSE i \in 1..(Len(t) - 1) :
               /\ t[i] = "/" /\ t[i + 1] = "/"
               /\ \A j \in 1..(i - 1) : ~(t[j] = "/" /\ t[j + 1] = "/")
        ELSE 0
  IN  ByValue1(First, s)

SchemelessUrl(s) ==
  LET Stripped(t, d) ==
        IF d = 1 THEN SubSeq(t, 3, Len(t))
        ELSE IF d < 3 THEN t
        ELSE IF t[d - 1] # ":" THEN t
        ELSE IF \E i \in 1..(d - 2) : t[i] \notin SchemeChars THEN t
        ELSE SubSeq(t, d + 2, Len(t))
  IN  ByValue2(Stripped, s, FindDoubleSlash(s))

RECURSIVE StripTrailingDots(_)
StripTrailingDots(s) ==
  LET Stripped(t) ==
        IF t # << >> /\ t[Len(t)] = "." THEN StripTrailingDots(SubSeq(t, 1, Len(t) - 1)) ELSE t
  IN  ByValue1(Stripped, s)

Netloc(s) ==
  StripTrailingDots(SplitOn(SplitOn(SchemelessUrl(s), "/")[1], ":")[1])

RECURSIVE DecimalValue(_)
DecimalValue(s) ==
  LET Value(t) ==
        IF t = << >> THEN 0
        ELSE 10 * DecimalValue(SubSeq(t, 1, Len(t) - 1))
             + (CHOOSE d \in 0..9 : ToString(d) = t[Len(t)])
  IN  ByValue1(Value, s)

LooksLikeIPv4(labels) ==
  \E ls \in {labels} :
    /\ Len(ls) = 4
    /\ \A i \in 1..4 : IsDigit(ls[i]) /\ Len(ls[i]) <= 3 /\ DecimalValue(ls[i]) <= 255

\* returns [subdomain, domain, suffix]
tldextract_extract(s) ==
  LET Parts(host, labels) ==
        LET n == Len(labels)
            k == IF Lower(labels[n]) \in PublicSuffixes THEN n - 1 ELSE n
        IN  IF k = n /\ LooksLikeIPv4(labels)
            THEN [subdomain |-> << >>, domain |-> host, suffix |-> << >>]
            ELSE [subdomain |-> IF k >= 2 THEN JoinWith(SubSeq(labels, 1, k - 1), ".") ELSE << >>,
                  domain |-> IF k >= 1 THEN labels[k] ELSE << >>,
                  suffix |-> IF k < n THEN labels[n] ELSE << >>]
      Labels(host) == ByValue2(Parts, host, SplitOn(host, "."))
  IN  ByValue1(Labels, Netloc(s))

\* variant: the test of train_model.py, a host holding any digit
HasIpAnyDigit(s) ==
  LET host(segs) == IF Len(segs) > 2 THEN segs[3] ELSE << >>
      Check(h) == IF \E i \in 1..Len(h) : h[i] \in Digits THEN 1 ELSE 0
  IN  ByValue1(Check, ByValue1(host, SplitOn(s, "/")))

\* lines 74-82
HasIp(s) ==
  IF CountChar(s, "/") > 0
  THEN LET host_part(segs) == IF Len(segs) > 2 THEN segs[3] ELSE segs[1]
           Check(parts) == IF IsDigit(parts) /\ Len(parts) >= 7 THEN 1 ELSE 0
       IN  ByValue1(Check,
             RemoveChar(RemoveChar(ByValue1(host_part, SplitOn(s, "/")), "."), ":"))
  ELSE 0

extract_features(s) ==
  LET Features(extracted) ==
      [ url_length |-> Len(s),
        dot_count |-> CountChar(s, "."),
        has_ip |-> HasIp(s),
        has_https |-> IF StartsWith(s, << "h", "t", "t", "p", "s", ":", "/", "/" >>) THEN 1 ELSE 0,
        suspicious_keywords |->
          Cardinality({ i \in 1..Len(suspicious_keywords_list) :
                          Contains(Lower(s), Lower(suspicious_keywords_list[i])) }),
        tld_risk_score |-> IF Lower(extracted.suffix) \in suspicious_tlds THEN 1 ELSE 0,
        subdomain_count |-> IF extracted.subdomain # << >>
                            THEN CountChar(extracted.subdomain, ".") + 1 ELSE 0,
        entropy |-> calculate_entropy(s) ]
  IN  ByValue1(Features, tldextract_extract(s))

\* the URLs tried: up to MaxChunks pieces glued together, and two fixed ones
Chunks ==
  { << "h", "t", "t", "p", ":", "/", "/" >>,
    << "/" >>,
    << "1", "2", "3", "4" >>,
    << "5", "6", "7" >>,
    << "." >>,
    << ":" >>,
    << "x", "y", "z" >> }

RECURSIVE Glue(_)
Glue(cs) ==
  LET Glued(xs) == IF xs = << >> THEN << >> ELSE xs[1] \o Glue(Tail(xs))
  IN  ByValue1(Glued, cs)

ChunkUrls ==
  UNION { { Glue(cs) : cs \in [1..n -> Chunks] } : n \in 0..MaxChunks }

Scenario1Url == << "h", "t", "t", "p", ":", "/", "/", "1", "9", "2", ".", "1", "6", "8", ".", "1", ".", "1", ".", "x", "y", "z", "/", "v", "e", "r", "i", "f", "y", "-", "a", "c", "c", "o", "u", "n", "t", "-", "u", "p", "d", "a", "t", "e" >>

SlashFreeIp == << "1", "9", "2", ".", "1", "6", "8", ".", "1", ".", "1" >>

Urls == ChunkUrls \cup { Scenario1Url, SlashFreeIp }

\* ---------------------------------------------------------------- inputs
FeatureVectors ==
  [ url_length : {80, 81},
    dot_count : {4, 5},
    has_ip : {0, 1},
    has_https : {0, 1},
    suspicious_keywords : 0..MaxKeywords,
    tld_risk_score : {0, 1},
    subdomain_count : {3, 4},
    entropy : {5000, 5001} ]

NoFeatures ==
  [ url_length |-> 0, dot_count |-> 0, has_ip |-> 0, has_https |-> 0,
    suspicious_keywords |-> 0, tld_risk_score |-> 0, subdomain_count |-> 0,
    entropy |-> 0 ]

OpaqueUrl == << "u" >>

\* --------------------------------------------------------------- actions
RequestReset ==
  /\ url = << >>
  /\ features = NoFeatures
  /\ prob = NoProb
  /\ threat_score = Zero
  /\ confidence = "None"
  /\ indicators = << >>
  /\ gsb_result = "None"
  /\ vt_result = "None"
  /\ net_log = << >>
  /\ verdict = "None"

\* the locals of a finished call are gone
DropRequest ==
  /\ url' = << >>
  /\ features' = NoFeatures
  /\ prob' = NoProb
  /\ threat_score' = Zero
  /\ confidence' = "None"
  /\ indicators' = << >>
  /\ gsb_result' = "None"
  /\ vt_result' = "None"
  /\ net_log' = << >>
  /\ verdict' = "None"

NoResponse == [status |-> 0, body |-> "none"]

PersistenceInit ==
  /\ response = NoResponse
  /\ store = << >>
  /\ next_id = 1
  /\ firestore_log = "none"

Init ==
  /\ model \in {"None", "loaded"}
  /\ GOOGLE_SAFE_BROWSING_API_KEY \in {"", "gsb-key"}
  /\ VIRUSTOTAL_API_KEY \in {"", "vt-key"}
  /\ firestore_client = "None"
  /\ pc = "idle"
  /\ RequestReset
  /\ PersistenceInit

\* analyze_url entered with a URL whose features are f (line 207)
StartAnalysis ==
  /\ pc = "idle"
  /\ \E f \in FeatureVectors :
       /\ url' = OpaqueUrl
       /\ features' = f
  /\ pc' = "predict"
  /\ UNCHANGED << config, prob, threat_score, confidence, indicators,
                  gsb_result, vt_result, net_log, verdict, persistence >>

\* line 208
PredictThreat ==
  /\ pc = "predict"
  /\ \E p \in (IF model # "None" THEN ProbPairs ELSE {NoProb}) :
       /\ prob' = p
       /\ threat_score' = predict_threat(model, features, p)[1]
       /\ confidence' = predict_threat(model, features, p)[2]
  /\ pc' = "indicators"
  /\ UNCHANGED << config, url, features, indicators, gsb_result, vt_result,
                  net_log, verdict, persistence >>

\* lines 210-227
ComputeIndicators ==
  /\ pc = "indicators"
  /\ indicators' = BaseIndicators(features)
  /\ pc' = "gsb"
  /\ UNCHANGED << config, url, features, prob, threat_score, confidence,
                  gsb_result, vt_result, net_log, verdict, persistence >>

\* lines 229-233
GoogleSafeBrowsingStep ==
  /\ pc = "gsb"
  /\ \E r \in (IF GOOGLE_SAFE_BROWSING_API_KEY = "" THEN {NoCall} ELSE GsbResponses) :
       LET res == get_google_safe_browsing(GOOGLE_SAFE_BROWSING_API_KEY, r)
       IN  /\ gsb_result' = res
           /\ net_log' = IF r = NoCall THEN net_log
                         ELSE Append(net_log, [call |-> "safebrowsing", response |-> r])
           /\ IF GsbFlagged(res)
              THEN /\ threat_score' = RaiseScore(threat_score)
                   /\ indicators' = Append(indicators, <<"Flagged by Google Safe Browsing">>)
                   /\ confidence' = "High"
              ELSE UNCHANGED << threat_score, indicators, confidence >>
  /\ pc' = "vt"
  /\ UNCHANGED << config, url, features, prob, vt_result, verdict, persistence >>

\* lines 235-237
VirusTotalStep ==
  /\ pc = "vt"
  /\ \E r \in (IF VIRUSTOTAL_API_KEY = "" THEN {NoCall} ELSE VtResponses) :
       LET res == get_virustotal_analysis(VIRUSTOTAL_API_KEY, r)
       IN  /\ vt_result' = res
           /\ net_log' = IF r = NoCall THEN net_log
                         ELSE Append(net_log, [call |-> "virustotal", response |-> r])
           /\ indicators' = IF res.enabled
                            THEN Append(indicators, <<"Analyzed by VirusTotal">>)
                            ELSE indicators
  /\ pc' = "classify"
  /\ UNCHANGED << config, url, features, prob, threat_score, confidence,
                  gsb_result, verdict, persistence >>

\* lines 239-268
Classify ==
  /\ pc = "classify"
  /\ verdict' = MakeVerdict(url, features, threat_score, confidence, indicators,
                            gsb_result, vt_result)
  /\ pc' = "done"
  /\ UNCHANGED << config, url, features, prob, threat_score, confidence,
                  indicators, gsb_result, vt_result, net_log, persistence >>

\* the caller takes the verdict; the engine keeps nothing of the request
Return ==
  /\ pc = "done"
  /\ pc' = "idle"
  /\ DropRequest
  /\ UNCHANGED << config, persistence >>

Engine ==
  \/ PredictThreat
  \/ ComputeIndicators
  \/ GoogleSafeBrowsingStep
  \/ VirusTotalStep
  \/ Classify

Next ==
  \/ StartAnalysis
  \/ Engine
  \/ Return

Spec == Init /\ [][Next]_vars

\* ------------------------------------------ the engine on concrete URLs
InitUrl ==
  /\ Init
  /\ model = "None"
  /\ VIRUSTOTAL_API_KEY = ""

\* analyze_url(url), line 207
ExtractFeatures ==
  /\ pc = "idle"
  /\ \E u \in Urls :
       /\ url' = u
       /\ features' = extract_features(u)
  /\ pc' = "predict"
  /\ UNCHANGED << config, prob, threat_score, confidence, indicators,
                  gsb_result, vt_result, net_log, verdict, persistence >>

NextUrl ==
  \/ ExtractFeatures
  \/ Engine
  \/ Return

SpecUrl == InitUrl /\ [][NextUrl]_vars

\* ------------------------------------------- the endpoints and Firestore
InitApi ==
  /\ model = "None"
  /\ GOOGLE_SAFE_BROWSING_API_KEY = ""
  /\ VIRUSTOTAL_API_KEY = ""
  /\ firestore_client \in {"None", "client"}
  /\ pc = "idle"
  /\ RequestReset
  /\ PersistenceInit

\* one URL per verdict class, and two that score 0.3 up to rounding
ApiFeatureVectors ==
  { [NoFeatures EXCEPT !.url_length = 20, !.has_https = 1],
    [NoFeatures EXCEPT !.url_length = 20, !.tld_risk_score = 1],
    [NoFeatures EXCEPT !.url_length = 81, !.has_https = 1, !.entropy = 5001],
    [NoFeatures EXCEPT !.url_length = 20, !.tld_risk_score = 1, !.suspicious_keywords = 3] }

\* lines 282-292
ScanData(v, id) ==
  [ scanId |-> id,
    url |-> v.url,
    threatScore |-> v.threatScore,
    threatLevel |-> v.threatLevel,
    confidence |-> v.confidence,
    indicators |-> v.indicators,
    recommendation |-> v.recommendation,
    safeToVisit |-> v.safeToVisit,
    createdAt |-> id ]

Http500 == [status |-> 500, body |-> "error"]

FirestoreOutcomes == {"ok", "raised"}

\* POST /analyze-url arrives, lines 278-280
ReceiveRequest ==
  /\ pc = "idle"
  /\ next_id <= MaxScans
  /\ \E f \in ApiFeatureVectors :
       /\ url' = OpaqueUrl
       /\ features' = f
  /\ pc' = "predict"
  /\ response' = NoResponse
  /\ UNCHANGED << config, prob, threat_score, confidence, indicators,
                  gsb_result, vt_result, net_log, verdict, store, next_id,
                  firestore_log >>

\* variant: the set() call outside any try, a failed write answers 500
RespondWriteUncaught ==
  /\ pc = "done"
  /\ \E w \in (IF firestore_client # "None" THEN FirestoreOutcomes ELSE {"none"}) :
       /\ firestore_log' = w
       /\ store' = IF w = "ok" THEN Append(store, ScanData(verdict, next_id)) ELSE store
       /\ response' = IF w = "raised" THEN Http500 ELSE [status |-> 200, body |-> verdict]
  /\ next_id' = next_id + 1
  /\ pc' = "responded"
  /\ UNCHANGED << config, request >>

\* lines 282-301: analyze_url has returned
Respond ==
  /\ pc = "done"
  /\ \E w \in (IF firestore_client # "None" THEN FirestoreOutcomes ELSE {"none"}) :
       /\ firestore_log' = w
       /\ store' = IF w = "ok" THEN Append(store, ScanData(verdict, next_id)) ELSE store
  /\ next_id' = next_id + 1
  /\ response' = [status |-> 200, body |-> verdict]
  /\ pc' = "responded"
  /\ UNCHANGED << config, request >>

Finish ==
  /\ pc = "responded"
  /\ pc' = "idle"
  /\ DropRequest
  /\ UNCHANGED << config, persistence >>

CountLevel(docs, level) ==
  Cardinality({ i \in 1..Len(docs) : docs[i].threatLevel = level })

Counts(docs) ==
  [ totalScans |-> Len(docs),
    safeCount |-> CountLevel(docs, "Safe"),
    suspiciousCount |-> CountLevel(docs, "Suspicious"),
    highRiskCount |-> CountLevel(docs, "High Risk") ]

\* GET /analytics, lines 306-336
GetAnalytics ==
  /\ pc = "idle"
  /\ \E r \in (IF firestore_client # "None" THEN FirestoreOutcomes ELSE {"none"}) :
       /\ firestore_log' = r
       /\ response' = [status |-> 200, endpoint |-> "analytics",
                       body |-> IF r = "ok" THEN Counts(store) ELSE Counts(<< >>)]
  /\ UNCHANGED << config, pc, request, store, next_id >>

\* order_by("createdAt", DESCENDING).limit(limit) over documents kept oldest first
Newest(docs, limit) ==
  [ i \in 1..(IF limit < Len(docs) THEN limit ELSE Len(docs)) |-> docs[Len(docs) + 1 - i] ]

Limits == {1, 50}

\* GET /scan-history, lines 339-352
GetScanHistory ==
  /\ pc = "idle"
  /\ \E limit \in Limits :
       \E r \in (IF firestore_client # "None" THEN FirestoreOutcomes ELSE {"none"}) :
         /\ firestore_log' = r
         /\ response' = [status |-> 200, endpoint |-> "scan-history",
                         body |-> IF r = "ok" THEN Newest(store, limit) ELSE << >>]
  /\ UNCHANGED << config, pc, request, store, next_id >>

\* DELETE /scan-history/{scan_id}, lines 355-363
DeleteScan ==
  /\ pc = "idle"
  /\ \E id \in 1..MaxScans :
       \E r \in (IF firestore_client # "None" THEN FirestoreOutcomes ELSE {"none"}) :
         /\ firestore_log' = r
         /\ store' = IF r = "ok" THEN SelectSeq(store, LAMBDA d : d.scanId # id) ELSE store
         /\ response' = IF r = "ok"
                        THEN [status |-> 200, endpoint |-> "delete",
                              body |-> [status |-> "deleted", scanId |-> id]]
                        ELSE [status |-> 500, endpoint |-> "delete", body |-> "error"]
  /\ UNCHANGED << config, pc, request, next_id >>

NextApi ==
  \/ ReceiveRequest
  \/ Engine
  \/ Respond
  \/ Finish
  \/ GetAnalytics
  \/ GetScanHistory
  \/ DeleteScan

SpecApi == InitApi /\ [][NextApi]_vars

\* ================================================================ claims
\* x <= c/100 and x >= c/100 as real numbers, for a float x
AtMostHundredths(x, c) == LessEq(ExactScale(100, x), << 256 * c, 0, 0, 0 >>)
AtLeastHundredths(x, c) == LessEq(<< 256 * c, 0, 0, 0 >>, ExactScale(100, x))

\* <<score, confidence>> as the scorer gave them for this request
Base == predict_threat(model, features, prob)

FlagText == << "Flagged by Google Safe Browsing" >>
VtText == << "Analyzed by VirusTotal" >>

InSeq(x, seq) == \E i \in 1..Len(seq) : seq[i] = x

\* C1: the verdict's level and safeToVisit follow the fused score s by the
\* thresholds 0.3 and 0.6 (Safe up to 0.3, Suspicious up to 0.6, High Risk
\* above), isMalicious is s > 0.5 and actionRequired is s > 0.3.
C1_Thresholds ==
  pc = "done" =>
    /\ AtMostHundredths(threat_score, 30) =>
         verdict.threatLevel = "Safe" /\ verdict.safeToVisit = TRUE
    /\ (~AtMostHundredths(threat_score, 30) /\ AtMostHundredths(threat_score, 60)) =>
         verdict.threatLevel = "Suspicious" /\ verdict.safeToVisit = FALSE
    /\ ~AtMostHundredths(threat_score, 60) =>
         verdict.threatLevel = "High Risk" /\ verdict.safeToVisit = FALSE
    /\ verdict.isMalicious = ~AtMostHundredths(threat_score, 50)
    /\ verdict.actionRequired = ~AtMostHundredths(threat_score, 30)

\* a Suspicious verdict that is malicious: a score in (0.5, 0.6]
C1_Witness ==
  /\ pc = "done"
  /\ verdict.threatLevel = "Suspicious"
  /\ verdict.isMalicious
  /\ verdict.actionRequired
  /\ ~verdict.safeToVisit

\* the rule table of the heuristic scorer: which rows hold, and their
\* deltas in hundredths
RuleHolds(f) ==
  << f.url_length > 80, f.dot_count > 4, f.has_ip # 0, f.has_https = 0,
     f.suspicious_keywords > 0, f.tld_risk_score > 0, f.subdomain_count > 3,
     f.entropy > 5000 >>

RuleHundredths(f) ==
  << 15, 10, 25, 10, 10 * f.suspicious_keywords, 20, 10, 15 >>

RECURSIVE RealSum(_, _)
RealSum(f, i) ==
  IF i = 0 THEN 0
  ELSE (IF RuleHolds(f)[i] THEN RuleHundredths(f)[i] ELSE 0) + RealSum(f, i - 1)

\* the same sum in floats, row after row
RECURSIVE TableSum(_, _)
TableSum(f, i) ==
  IF i = 0 THEN Zero
  ELSE LET Add(before) ==
             IF ~RuleHolds(f)[i] THEN before
             ELSE IF i = 5 THEN FloatAdd(before, FloatMulInt(f.suspicious_keywords, Dec(10)))
             ELSE FloatAdd(before, Dec(RuleHundredths(f)[i]))
       IN  ByValue1(Add, TableSum(f, i - 1))

\* f with one more rule condition true, the other fields as they are
OneMoreRule(f) ==
  { g \in { [f EXCEPT !.url_length = 81], [f EXCEPT !.dot_count = 5],
            [f EXCEPT !.has_ip = 1], [f EXCEPT !.has_https = 0],
            [f EXCEPT !.tld_risk_score = 1], [f EXCEPT !.subdomain_count = 4],
            [f EXCEPT !.entropy = 5001] }
          \cup { [f EXCEPT !.suspicious_keywords = k] : k \in 1..MaxKeywords } :
      \E i \in 1..8 :
        /\ ~RuleHolds(f)[i] /\ RuleHolds(g)[i]
        /\ \A j \in (1..8) \ {i} : RuleHolds(g)[j] = RuleHolds(f)[j] }

\* C2: without an artifact the score is min(1, sum of the deltas of the rows
\* that hold), the confidence is Medium, the score lies in [0,1] and does
\* not decrease when one more rule condition becomes true.
C2_HeuristicTable ==
  (pc = "indicators" /\ model = "None") =>
    /\ threat_score = FloatMin(TableSum(features, 8), Dec(100))
    /\ Round2(threat_score) =
         (IF RealSum(features, 8) < 100 THEN RealSum(features, 8) ELSE 100)
    /\ confidence = "Medium"
    /\ LessEq(Zero, threat_score) /\ LessEq(threat_score, Dec(100))
    /\ \A g \in OneMoreRule(features) : LessEq(threat_score, HeuristicScore(g))

\* the rows add up to more than 1 and the score is clamped
C2_Witness ==
  /\ pc = "indicators"
  /\ model = "None"
  /\ RealSum(features, 8) > 100
  /\ threat_score = Dec(100)
  /\ OneMoreRule(features) # {}

\* C3: a blocklist match gives min(base + 0.30, 1.0), confidence High and the
\* indicator "Flagged by Google Safe Browsing" right after the base
\* indicators; without a match the score and confidence are the base ones.
C3_BlocklistFusion ==
  pc \in {"vt", "classify", "done"} =>
    \E base \in {Base}, rules \in {BaseIndicators(features)} :
      IF gsb_result.enabled /\ "matches" \in DOMAIN gsb_result /\ Len(gsb_result.matches) >= 1
      THEN \E raised \in {FloatMin(FloatAdd(base[1], Dec(30)), Dec(100))} :
             /\ threat_score = raised
             /\ confidence = "High"
             /\ Len(indicators) > Len(rules)
             /\ SubSeq(indicators, 1, Len(rules) + 1) = Append(rules, FlagText)
             /\ pc = "done" =>
                  /\ verdict.threatScore = Round2(raised)
                  /\ verdict.confidence = "High"
      ELSE /\ threat_score = base[1]
           /\ confidence = base[2]
           /\ pc = "done" =>
                /\ verdict.threatScore = Round2(base[1])
                /\ verdict.confidence = base[2]

\* a match on a model score of 0.604 with confidence Medium
C3_Witness ==
  /\ pc = "done"
  /\ model = "loaded"
  /\ gsb_result.enabled
  /\ gsb_result.matches # << >>
  /\ Base[2] = "Medium"
  /\ Round2(Base[1]) = 60
  /\ verdict.threatScore = 90
  /\ verdict.confidence = "High"
  /\ indicators[Len(BaseIndicators(features)) + 1] = FlagText

\* the call failed: it raised, answered another status than 200, or its
\* body did not parse
FailedResponse(r) == r.raises \/ r.status # 200 \/ r.body = "not_json"

Calls(name) == SelectSeq(net_log, LAMBDA e : e.call = name)

GsbFailed ==
  \/ GOOGLE_SAFE_BROWSING_API_KEY = ""
  \/ Calls("safebrowsing") # << >> /\ FailedResponse(Calls("safebrowsing")[1].response)

VtFailed ==
  \/ VIRUSTOTAL_API_KEY = ""
  \/ Calls("virustotal") # << >> /\ FailedResponse(Calls("virustotal")[1].response)

\* C4: a provider whose call fails (no key, exception, non-200, unparseable
\* body) returns enabled = false, without a network call when the key is
\* missing, and the verdict keeps the scorer's score and confidence and the
\* base indicators, with no entry of the failed provider.
C4_ProviderFailure ==
  pc \in {"vt", "classify", "done"} =>
    \E base \in {Base}, rules \in {BaseIndicators(features)} :
      /\ GOOGLE_SAFE_BROWSING_API_KEY = "" => Calls("safebrowsing") = << >>
      /\ GsbFailed =>
           /\ gsb_result.enabled = FALSE
           /\ threat_score = base[1]
           /\ confidence = base[2]
           /\ ~InSeq(FlagText, indicators)
      /\ pc \in {"classify", "done"} =>
           /\ VIRUSTOTAL_API_KEY = "" => Calls("virustotal") = << >>
           /\ VtFailed =>
                /\ vt_result.enabled = FALSE
                /\ ~InSeq(VtText, indicators)
           /\ (GsbFailed /\ VtFailed) => indicators = rules
      /\ (pc = "done" /\ GsbFailed /\ VtFailed) =>
           /\ verdict.threatScore = Round2(base[1])
           /\ verdict.confidence = base[2]
           /\ verdict.indicators =
                (IF rules = << >>
                 THEN << << "No specific threat indicators detected" >> >>
                 ELSE rules)
           /\ verdict.googleSafeBrowsing.enabled = FALSE
           /\ verdict.virusTotal.enabled = FALSE

\* both calls were made and both failed, one by raising, one by its body
C4_Witness ==
  /\ pc = "done"
  /\ Len(net_log) = 2
  /\ net_log[1].response.raises
  /\ net_log[2].response.body = "not_json"
  /\ BaseIndicators(features) # << >>
  /\ verdict.indicators = BaseIndicators(features)
  /\ Less(Zero, Base[1])
  /\ verdict.threatScore = Round2(Base[1])

\* C5: the threatScore of every verdict lies in [0,1], in both scorer modes
\* and under every provider outcome.
C5_ScoreRange ==
  /\ LessEq(Zero, threat_score) /\ AtMostHundredths(threat_score, 100)
  /\ pc = "done" => verdict.threatScore \in 0..100

\* a match on a model score of 1.0
C5_Witness ==
  /\ pc = "done"
  /\ model = "loaded"
  /\ prob[2] = Dec(100)
  /\ gsb_result.enabled
  /\ gsb_result.matches # << >>
  /\ verdict.threatScore = 100

\* C6: among verdicts, equal threatScore fields mean equal threatLevel,
\* recommendation and safeToVisit (here: the verdict just returned against
\* the scans recorded from earlier verdicts).
C6_LevelFromScoreField ==
  pc = "responded" =>
    \A i \in 1..Len(store) :
      store[i].threatScore = verdict.threatScore =>
        /\ store[i].threatLevel = verdict.threatLevel
        /\ store[i].recommendation = verdict.recommendation
        /\ store[i].safeToVisit = verdict.safeToVisit

\* the indicator texts of the rule table of the heuristic scorer
TableTexts(f) ==
  << << "Unusually long URL" >>, << "Excessive subdomains" >>, << "IP address in URL" >>,
     << "No HTTPS encryption" >>,
     << "Suspicious keywords detected (", ToString(f.suspicious_keywords), " found)" >>,
     << "High-risk TLD detected" >>, << "Excessive subdomain depth" >>,
     << "High URL entropy (obfuscation indicator)" >> >>

RECURSIVE TableIndicators(_, _)
TableIndicators(f, i) ==
  IF i = 0 THEN << >>
  ELSE TableIndicators(f, i - 1) \o (IF RuleHolds(f)[i] THEN << TableTexts(f)[i] >> ELSE << >>)

\* C7: the base indicators of the verdict are the rule table's texts for the
\* rows that hold, in table order: the texts the heuristic scorer attaches.
C7_IndicatorTexts ==
  pc = "gsb" =>
    /\ indicators = TableIndicators(features, 8)
    /\ indicators = HeuristicIndicators(features)

\* the host candidate of the claim: after "://" up to the next "/", or the
\* whole string when it holds no "/"
HostCandidate(s) ==
  LET d == FindDoubleSlash(s)
  IN  IF CountChar(s, "/") = 0 THEN s
      ELSE SplitOn(SubSeq(s, d + 2, Len(s)), "/")[1]

HostCandidateDefined(s) ==
  \/ CountChar(s, "/") = 0
  \/ FindDoubleSlash(s) >= 2 /\ s[FindDoubleSlash(s) - 1] = ":"

LooksNumeric(host) ==
  LET stripped == RemoveChar(RemoveChar(host, "."), ":")
  IN  stripped # << >> /\ (\A i \in 1..Len(stripped) : stripped[i] \in Digits)
      /\ Len(stripped) >= 7

\* C8: has_ip = 1 exactly when the host candidate, stripped of "." and ":",
\* is non-empty, all digits and at least 7 long; a string without "/" is its
\* own host candidate.
C8_HasIp ==
  (pc # "idle" /\ HostCandidateDefined(url)) =>
    features.has_ip = (IF LooksNumeric(HostCandidate(url)) THEN 1 ELSE 0)

\* C9: in heuristic mode without a blocklist match, the scenario URL gets
\* has_ip = 0, has_https = 0, three keywords, tld_risk_score = 1, a score of
\* at least 0.6 and the level High Risk.
C9_Scenario1 ==
  (pc = "done" /\ url = Scenario1Url /\ model = "None"
     /\ ~(gsb_result.enabled /\ gsb_result.matches # << >>)) =>
    /\ features.has_ip = 0
    /\ features.has_https = 0
    /\ features.suspicious_keywords = 3
    /\ { i \in 1..Len(suspicious_keywords_list) :
           Contains(url, suspicious_keywords_list[i]) } = {4, 5, 6}
    /\ features.tld_risk_score = 1
    /\ AtLeastHundredths(threat_score, 60)
    /\ verdict.threatLevel = "High Risk"

\* the scenario URL analysed with the blocklist answering "no match"
C9_Witness ==
  /\ pc = "done"
  /\ url = Scenario1Url
  /\ model = "None"
  /\ gsb_result.enabled
  /\ gsb_result.matches = << >>
  /\ verdict.threatLevel = "High Risk"

ZeroCounts ==
  [totalScans |-> 0, safeCount |-> 0, suspiciousCount |-> 0, highRiskCount |-> 0]

\* C10: /analyze-url answers with the complete verdict of analyze_url whether
\* Firestore is absent, its write succeeds or its write raises; /analytics
\* and /scan-history answer zero counts and an empty list, never an error,
\* when Firestore is absent or the read raises.
C10_PersistenceFaults ==
  /\ pc = "responded" =>
       /\ firestore_log \in {"none", "ok", "raised"}
       /\ response.status = 200
       /\ response.body = verdict
       /\ verdict = MakeVerdict(url, features, threat_score, confidence, indicators,
                                gsb_result, vt_result)
  /\ (pc = "idle" /\ "endpoint" \in DOMAIN response
        /\ response.endpoint \in {"analytics", "scan-history"}) =>
       /\ response.status = 200
       /\ (firestore_client = "None" \/ firestore_log = "raised") =>
            response.body = (IF response.endpoint = "analytics" THEN ZeroCounts ELSE << >>)

\* a verdict answered although the write of its scan raised
C10_Witness ==
  /\ pc = "responded"
  /\ firestore_log = "raised"
  /\ response.status = 200
  /\ response.body = verdict
  /\ verdict.threatLevel = "High Risk"
  /\ store # << >>

====
